---- MODULE Spec2Model ----
(***************************************************************************)
(* Playback scheduling and filtered navigation of the Hindi alphabet       *)
(* helper (src/main.py, class MainWindow).                                 *)
(*                                                                         *)
(* The window runs on one Qt event loop: every slot and every              *)
(* QTimer.singleShot callback runs to completion, so each is one action.   *)
(* Time is counted in milliseconds and advances in steps of TickMs; the    *)
(* pending single-shot timers are kept in the order Qt fires them (by      *)
(* expiry, first scheduled first among equals).                            *)
(***************************************************************************)
EXTENDS Integers, Sequences, FiniteSets, TLC

\* ------------------------------------------------------------------ bounds
MaxLetters == 15      \* largest alphabet loaded
MaxRepeats == 2       \* largest settings.TTS_REPEATS
MaxDelayTicks == 2    \* largest settings.TTS_DELAY, in ticks
MaxSecs == 1          \* largest value of the interval slider, in seconds
MaxCommands == 2      \* user commands accepted in one run
MaxTextLen == 3       \* longest example text, in code points
MaxDepLen == 2        \* longest dependent form, in code points
MaxEntries == 2       \* most entries in a data file

\* ------------------------------------------------------- program constants
FirstConsonant == 13  \* the literal boundary between vowels and consonants
PollMs == 100         \* poll interval of _wait_until_silent
MsPerSec == 1000      \* on_interval_changed: secs * 1000
NoIndex == -1         \* Python's None as an index
DevanagariFirst == 2304  \* U+0900, the lower end of _has_devanagari
DevanagariLast == 2431   \* U+097F, its upper end
FallbackRate == 150   \* the rate _reinit_engine sets when the engine has none
TickMs == PollMs      \* granularity of the clock: one poll interval
NoToken == NoIndex    \* None again, where a token is expected

Modes == {"vowels", "consonants", "both"}
Categories == {"vowel", "consonant"}
\* the launches explored: <<len(letters), settings.CURRENT_RADIO_BUTTON>>. The
\* one-entry alphabet is the one utilities/entryTester.py writes; the large one
\* starts on its consonants, and reaches the other modes by on_filter_changed
Launches == {<<1, m>> : m \in Modes} \cup {<<MaxLetters, "consonants">>}
\* data/letters.yaml as shipped: the vowels, then the consonants
RECURSIVE Standard(_)
Standard(n) ==
    IF n = 0 THEN << >>
    ELSE Append(Standard(n - 1),
                IF n - 1 < FirstConsonant THEN "vowel" ELSE "consonant")

\* the alphabets loaded: the shipped one, and the one entry of either category
\* that utilities/entryTester.py leaves in letters.yaml
Alphabets == {Standard(MaxLetters)} \cup {<<c>> : c \in Categories}
RepeatChoices == {0, MaxRepeats}
DelayChoices == {0, MaxDelayTicks * TickMs}
SecChoices == 0..MaxSecs

VARIABLES
    numLetters,    \* len(self.letters)
    letterType,    \* letter_type of each entry of self.letters, in order
    ttsRepeats,    \* settings.TTS_REPEATS (0 also stands for None)
    ttsDelay,      \* settings.TTS_DELAY, ms
    autoPlaySound, \* settings.CURRENT_AUTO_PLAY_SOUND
    index,         \* self.index, the cursor
    filterMode,    \* self.filter_mode
    playToken,     \* self._play_token
    contActive,    \* self._continuous_active
    contDelay,     \* self._continuous_delay_ms
    cbAutoplay,    \* checked state of the cbAutoPlay checkbox
    controls,      \* [busy, play, next, prev]: last _set_busy argument and
                   \* the enabled state of play_btn, next_btn, prev_btn
    speaking,      \* what audio_player.is_speaking() would report
    timers,        \* pending QTimer.singleShot callbacks, in firing order
    spoken,        \* history: play_for calls of the current cycle
    spokeTok,      \* history: token of the campaign whose play_for call the
                   \* latest step made, NoToken when it made none
    spokeIdx,      \* history: the cursor that play_for call read, NoIndex
                   \* when the latest step made none
    failed,        \* history: that play_for call raised
    campaign,      \* history: token and entry of the first play_for call of
                   \* the latest campaign
    quiet,         \* history: _stop_continuous was the latest command
    cmds,          \* history: number of user commands so far
    arg,           \* the position handed to the navigation function called last
    found,         \* what that call returned: a position, NoIndex for None,
                   \* 1 or 0 for True or False
    navOp,         \* which call it was
    text,          \* the text handed to the text function called last
    dep,           \* the dependent form handed to it
    regexLoaded,   \* _REGEX is not None: the import of regex succeeded
    raised,        \* the \X match of that call raised
    markup,        \* what _highlight_matra_cluster returned
    spans,         \* what _cluster_positions returned
    target,        \* target_span of paintEvent: <<start, end>>, << >> for None
    textOp,        \* which text function it was
    player,        \* the class of self.audio_player
    hindiVoice,    \* the Hindi voice the system offers, NoVoice when none
    voiceId,       \* audio_player._voice_id
    engineRate,    \* the rate property of the engine the player holds
    engineVoice,   \* the voice property of that engine
    symbol,        \* letter.symbol of the entry handed to play_for last
    said,          \* which field of the entry that call chose to speak
    attempts,      \* how often that call asked the engine to speak
    reinits,       \* how often that call ran _reinit_engine
    firstFailed,   \* the engine failed on the first attempt of that call
    escaped,       \* that call raised to its caller
    calls,         \* the stop and start requests that call made to the
                   \* engine, in order, each with whether it went through
    ttsOp,         \* which method of the player was called last
    appYaml,       \* the file data/letters.yaml: whether it is there, and
                   \* the list of entries in it
    backupYaml,    \* the file data/letters.yaml.bak, likewise
    entry,         \* the entry pick_entry returned
    step,          \* where main of utilities/entryTester.py is
    broke,         \* the step of main that raised ("exit" for sys.exit),
                   \* "none" when none did
    prior,         \* history: data/letters.yaml before the run
    staleBackup    \* history: data/letters.yaml.bak before the run

config == <<numLetters, letterType, ttsRepeats, ttsDelay, autoPlaySound>>
\* what the calls made outside the event loop leave behind
shown == <<text, dep, regexLoaded, raised, markup, spans, target, textOp>>
tts == <<player, hindiVoice, voiceId, engineRate, engineVoice, symbol, said,
         attempts, reinits, firstFailed, escaped, calls, ttsOp>>
tester == <<appYaml, backupYaml, entry, step, broke, prior, staleBackup>>
pure == <<arg, found, navOp, shown, tts, tester>>
vars == <<numLetters, letterType, ttsRepeats, ttsDelay, autoPlaySound, index,
          filterMode, playToken, contActive, contDelay, cbAutoplay, controls,
          speaking, timers, spoken, spokeTok, spokeIdx, failed, campaign,
          quiet, cmds, arg, found, navOp,
          text, dep, regexLoaded, raised, markup, spans, target, textOp,
          player, hindiVoice, voiceId, engineRate, engineVoice, symbol, said,
          attempts, reinits, firstFailed, escaped, calls, ttsOp,
          appYaml, backupYaml, entry, step, broke, prior, staleBackup>>

\* ------------------------------------------------------------- navigation
\* a boundary that is off by one
VisibleUpTo(mode, i) ==
    IF mode = "vowels" THEN i <= FirstConsonant
    ELSE IF mode = "consonants" THEN i > FirstConsonant
    ELSE TRUE

IsIndexVisible(mode, i) ==
    IF mode = "vowels" THEN i < FirstConsonant
    ELSE IF mode = "consonants" THEN i >= FirstConsonant
    ELSE TRUE

\* the while loops of _next_visible_index and _prev_visible_index
RECURSIVE ScanUp(_, _, _)
ScanUp(mode, n, i) ==
    IF i >= n THEN NoIndex
    ELSE IF IsIndexVisible(mode, i) THEN i
    ELSE ScanUp(mode, n, i + 1)

RECURSIVE ScanDown(_, _)
ScanDown(mode, i) ==
    IF i < 0 THEN NoIndex
    ELSE IF IsIndexVisible(mode, i) THEN i
    ELSE ScanDown(mode, i - 1)

\* the neighbours by position, whatever the filter shows
NextPosition(mode, n, start) == IF start + 1 < n THEN start + 1 ELSE NoIndex

PrevPosition(mode, start) == IF start - 1 >= 0 THEN start - 1 ELSE NoIndex

\* a scan that starts at the argument itself
NextFromSelf(mode, n, start) == ScanUp(mode, n, start)

NextVisibleIndex(mode, n, start) == ScanUp(mode, n, start + 1)

PrevVisibleIndex(mode, start) == ScanDown(mode, start - 1)

\* a wrap that always goes to the top of the list
TopOfList(mode) == 0

FirstOfMode(mode) == IF mode = "consonants" THEN FirstConsonant ELSE 0

\* an index left as it is, in range or not
KeepIndex(n, i) == i

\* _refresh: an index out of range is reset to 0
RefreshIndex(n, i) == IF i < 0 \/ i >= n THEN 0 ELSE i

\* both directions enabled, wherever the cursor is
AllEnabled(c, mode, n, i) == [c EXCEPT !.prev = TRUE, !.next = TRUE]

\* _refresh: prev/next are enabled by the bounds of the filtered sequence
RefreshControls(c, mode, n, i) ==
    [c EXCEPT !.prev = PrevVisibleIndex(mode, i) # NoIndex,
              !.next = NextVisibleIndex(mode, n, i) # NoIndex]

\* _set_busy: every control it touches is set outright
SetBusy(isBusy, active, mode, n, i) ==
    [busy |-> isBusy,
     play |-> IF active THEN TRUE ELSE ~isBusy,
     next |-> IF isBusy THEN FALSE ELSE NextVisibleIndex(mode, n, i) # NoIndex,
     prev |-> IF isBusy THEN FALSE ELSE PrevVisibleIndex(mode, i) # NoIndex]

\* _apply_autoplay_ui: with auto-play on, the controls of a busy window with
\* play enabled; with auto-play off, _refresh and the controls of an idle one
ApplyAutoplayUi(c, enabled, mode, n, i) ==
    IF enabled
    THEN [busy |-> TRUE, play |-> TRUE, next |-> FALSE, prev |-> FALSE]
    ELSE [RefreshControls(c, mode, n, RefreshIndex(n, i))
            EXCEPT !.busy = FALSE, !.play = TRUE]

Repeats(cfg) == IF cfg > 0 THEN cfg ELSE 1

\* the token left as it is, where the code adds one
SameToken(t) == t

NextToken(t) == t + 1

\* ----------------------------------------------------------------- timers
Timer(kind, tok, left, due) ==
    [kind |-> kind, tok |-> tok, left |-> left, due |-> due]

\* QTimer.singleShot(ms, f): f runs after the timers that expire no later.
\* Handlers take no time here, so a cycle with no delay in it could schedule
\* the same callback for the same instant without end; such equal timers run
\* back to back with one effect and are kept once.
Schedule(tms, tm) ==
    LET k == Cardinality({j \in 1..Len(tms) : tms[j].due <= tm.due})
    IN  IF \E j \in 1..Len(tms) : tms[j] = tm
        THEN tms
        ELSE SubSeq(tms, 1, k) \o <<tm>> \o SubSeq(tms, k + 1, Len(tms))

\* ------------------------------------------------------------- the speaker
\* an engine that always reports an utterance in progress
AlwaysSpeaking(spk, raises) == TRUE

\* is_speaking(): an exception of the engine reads as "not speaking"
IsSpeaking(spk, raises) == IF raises THEN FALSE ELSE spk

\* ------------------------------------------------------ the token checks
\* a check that lets every continuation through
NeverStale(token, current) == FALSE

\* a check that stops every continuation
AlwaysStale(token, current) == TRUE

PlayTokenStale(token, current) == token # current

PollTokenStale(token, current) == token # current

AfterDoneTokenStale(token, current) == token # current

AdvanceTokenStale(token, current) == token # current

\* ------------------------------------------------------- _play_repeated
\* _after_done, the continuation handed to _wait_until_silent
AfterDone(tms, left, token, current, active) ==
    IF AfterDoneTokenStale(token, current) THEN tms
    ELSE IF left > 1
    THEN Schedule(tms, Timer("play", token, left - 1, ttsDelay))
    ELSE LET t1 == Schedule(tms, Timer("idle", token, 0, ttsDelay))
         IN  IF active /\ token = current
             THEN Schedule(t1, Timer("advance", token, 0, contDelay))
             ELSE t1

\* reported: the value is_speaking() returned to this poll
WaitUntilSilent(tms, left, token, current, reported, active) ==
    IF PollTokenStale(token, current) THEN tms
    ELSE IF reported
    THEN Schedule(tms, Timer("poll", token, left, PollMs))
    ELSE AfterDone(tms, left, token, current, active)

NoCampaign == [tok |-> NoToken, idx |-> NoIndex]

\* a step in which play_for is not called
NoSpeak ==
    /\ spokeTok' = NoToken
    /\ spokeIdx' = NoIndex
    /\ failed' = FALSE
    /\ UNCHANGED campaign

\* a step that moves the token on and calls play_for later or never: the
\* campaign before is over
Superseded ==
    /\ spokeTok' = NoToken
    /\ spokeIdx' = NoIndex
    /\ failed' = FALSE
    /\ campaign' = NoCampaign

\* a call of play_for with no handler around it: what follows it in
\* _play_repeated is not run when it raises
Uncaught(fails, continued, aborted) == IF fails THEN aborted ELSE continued

\* try: play_for(letter) / except Exception: log.  continued is what the rest
\* of _play_repeated leaves, aborted what leaving it at the call would
Caught(fails, continued, aborted) == continued

\* started: the engine is speaking when play_for returns (FALSE when the
\* engine blocked until the utterance was over); fails: play_for raised,
\* which says nothing on what the engine reports afterwards
PlayRepeated(left, token, current, tms, active, mode, i, sp, started, raises) ==
    IF PlayTokenStale(token, current)
    THEN /\ timers' = tms
         /\ NoSpeak
         /\ UNCHANGED <<controls, speaking, spoken>>
    ELSE /\ controls' = SetBusy(TRUE, active, mode, numLetters, i)
         /\ speaking' = started
         /\ spoken' = sp + 1
         /\ spokeTok' = token
         /\ spokeIdx' = i
         /\ campaign' = IF sp = 0 THEN [tok |-> token, idx |-> i] ELSE campaign
         /\ \E fails \in BOOLEAN :
              /\ failed' = fails
              /\ timers' = Caught(fails,
                     WaitUntilSilent(tms, left, token, current,
                                     IsSpeaking(started, raises), active),
                     tms)

\* ----------------------------------------------------------- construction
InitIndex(mode, n) ==
    LET i0 == FirstOfMode(mode)
        i1 == IF IsIndexVisible(mode, i0) THEN i0
              ELSE IF NextVisibleIndex(mode, n, i0) # NoIndex
              THEN NextVisibleIndex(mode, n, i0)
              ELSE IF PrevVisibleIndex(mode, i0) # NoIndex
              THEN PrevVisibleIndex(mode, i0)
              ELSE i0
    IN  RefreshIndex(n, i1)

NoCall == arg = NoIndex /\ found = NoIndex /\ navOp = "none"

NoText ==
    /\ text = << >>
    /\ dep = << >>
    /\ regexLoaded = TRUE
    /\ raised = FALSE
    /\ markup = << >>
    /\ spans = << >>
    /\ target = << >>
    /\ textOp = "none"

NoVoice == "<None>"
DefaultVoice == "<default>"

\* a file: whether it is there, and the entries it holds
File(letters) == [there |-> TRUE, letters |-> letters]

Absent == [there |-> FALSE, letters |-> << >>]

\* a file opened for writing and left with nothing in it
Truncated == File(<< >>)

\* pick_entry returned None
NoEntry == "<None>"

NoTester ==
    /\ appYaml = Absent
    /\ backupYaml = Absent
    /\ entry = NoEntry
    /\ step = "none"
    /\ broke = "none"
    /\ prior = Absent
    /\ staleBackup = Absent

NoSpeech ==
    /\ player = "HindiTTSPlayerMac"
    /\ hindiVoice = NoVoice
    /\ voiceId = NoVoice
    /\ engineRate = FallbackRate
    /\ engineVoice = DefaultVoice
    /\ symbol = << >>
    /\ said = "none"
    /\ attempts = 0
    /\ reinits = 0
    /\ firstFailed = FALSE
    /\ escaped = FALSE
    /\ calls = << >>
    /\ ttsOp = "none"

Init ==
    /\ \E launch \in Launches :
         /\ numLetters = launch[1]
         /\ filterMode = launch[2]
    /\ letterType \in {a \in Alphabets : Len(a) = numLetters}
    /\ NoCall
    /\ NoText
    /\ NoSpeech
    /\ NoTester
    /\ ttsRepeats \in RepeatChoices
    /\ ttsDelay \in DelayChoices
    /\ autoPlaySound \in BOOLEAN
    /\ contDelay \in {s * MsPerSec : s \in SecChoices}
    /\ index = InitIndex(filterMode, numLetters)
    /\ quiet = FALSE
    /\ cmds = 0
    /\ \E continuous \in BOOLEAN, started \in BOOLEAN, raises \in BOOLEAN :
         /\ cbAutoplay = continuous
         /\ contActive = continuous
         /\ IF continuous
            THEN \* settings.CONTINUOUS: __init__ ends with _start_continuous
                 /\ playToken = NextToken(0)
                 /\ controls = SetBusy(TRUE, TRUE, filterMode, numLetters, index)
                 /\ speaking = started
                 /\ spoken = 1
                 /\ spokeTok = playToken
                 /\ spokeIdx = index
                 /\ failed \in BOOLEAN
                 /\ campaign = [tok |-> playToken, idx |-> index]
                 /\ timers = Caught(failed,
                        WaitUntilSilent(<< >>, Repeats(ttsRepeats), playToken,
                                        playToken, IsSpeaking(started, raises),
                                        TRUE),
                        << >>)
            ELSE /\ playToken = 0
                 /\ controls = RefreshControls(
                        [busy |-> FALSE, play |-> TRUE, next |-> TRUE, prev |-> TRUE],
                        filterMode, numLetters, index)
                 /\ speaking = FALSE
                 /\ spoken = 0
                 /\ spokeTok = NoToken
                 /\ spokeIdx = NoIndex
                 /\ failed = FALSE
                 /\ campaign = NoCampaign
                 /\ timers = << >>

\* --------------------------------------------------------------- commands
StopContinuous ==
    /\ contActive' = FALSE
    /\ playToken' = NextToken(playToken)
    /\ index' = RefreshIndex(numLetters, index)
    /\ controls' = ApplyAutoplayUi(controls, FALSE, filterMode, numLetters, index)
    /\ spoken' = 0
    /\ Superseded
    /\ quiet' = TRUE
    /\ UNCHANGED <<filterMode, contDelay, speaking, timers>>

StartContinuous(started, raises) ==
    /\ contActive' = TRUE
    /\ playToken' = NextToken(playToken)
    /\ PlayRepeated(Repeats(ttsRepeats), playToken', playToken', timers, TRUE,
                    filterMode, index, 0, started, raises)
    /\ quiet' = FALSE
    /\ UNCHANGED <<index, filterMode, contDelay>>

OnPlay ==
    /\ controls.play
    /\ IF contActive
       THEN StopContinuous
       ELSE \E started \in BOOLEAN, raises \in BOOLEAN :
              /\ playToken' = NextToken(playToken)
              /\ PlayRepeated(Repeats(ttsRepeats), playToken', playToken', timers,
                              contActive, filterMode, index, 0, started, raises)
              /\ quiet' = FALSE
              /\ UNCHANGED <<index, filterMode, contActive, contDelay>>
    /\ UNCHANGED <<config, cbAutoplay>>

OnAutoplayToggled ==
    /\ cbAutoplay' = ~cbAutoplay
    /\ IF cbAutoplay'
       THEN \E started \in BOOLEAN, raises \in BOOLEAN :
              StartContinuous(started, raises)
       ELSE StopContinuous
    /\ UNCHANGED config

\* the tail shared by on_rate_changed, on_filter_changed, on_prev, on_next
ReplayAfterDelay(mode, i) ==
    /\ playToken' = NextToken(playToken)
    /\ controls' = SetBusy(TRUE, contActive, mode, numLetters, i)
    /\ timers' = Schedule(timers, Timer("play", playToken',
                                        Repeats(ttsRepeats), ttsDelay))
    /\ spoken' = 0
    /\ Superseded

OnRateChanged ==
    /\ ReplayAfterDelay(filterMode, index)
    /\ quiet' = FALSE
    /\ UNCHANGED <<config, index, filterMode, contActive, contDelay, cbAutoplay,
                   speaking>>

MoveTo(mode, i) ==
    /\ filterMode' = mode
    /\ index' = RefreshIndex(numLetters, i)
    /\ IF autoPlaySound
       THEN ReplayAfterDelay(mode, index')
       ELSE /\ controls' = RefreshControls(controls, mode, numLetters, index')
            /\ NoSpeak
            /\ UNCHANGED <<playToken, timers, spoken>>
    /\ quiet' = FALSE
    /\ UNCHANGED <<config, contActive, contDelay, cbAutoplay, speaking>>

OnFilterChanged(mode) ==
    /\ mode # filterMode
    /\ MoveTo(mode, FirstOfMode(mode))

GoNext ==
    /\ LET nxt == NextVisibleIndex(filterMode, numLetters, index)
       IN  IF index < numLetters - 1 /\ nxt # NoIndex
           THEN /\ MoveTo(filterMode, nxt)
           ELSE /\ quiet' = FALSE
                /\ NoSpeak
                /\ UNCHANGED <<config, index, filterMode, playToken, contActive,
                               contDelay, cbAutoplay, controls, speaking, timers,
                               spoken>>

GoPrev ==
    /\ LET prv == PrevVisibleIndex(filterMode, index)
       IN  IF index > 0 /\ prv # NoIndex
           THEN /\ MoveTo(filterMode, prv)
           ELSE /\ quiet' = FALSE
                /\ NoSpeak
                /\ UNCHANGED <<config, index, filterMode, playToken, contActive,
                               contDelay, cbAutoplay, controls, speaking, timers,
                               spoken>>

\* next_btn and prev_btn call the handlers only while they are enabled
OnNext == controls.next /\ GoNext

OnPrev == controls.prev /\ GoPrev

OnIntervalChanged(secs) ==
    /\ contDelay' = IF secs * MsPerSec > 0 THEN secs * MsPerSec ELSE 0
    /\ contDelay' # contDelay
    /\ quiet' = FALSE
    /\ NoSpeak
    /\ UNCHANGED <<config, index, filterMode, playToken, contActive, cbAutoplay,
                   controls, speaking, timers, spoken>>

\* ---------------------------------------------------------- continuations
Due(kind) == timers # << >> /\ Head(timers).due = 0 /\ Head(timers).kind = kind

FirePlay ==
    /\ Due("play")
    /\ LET tm == Head(timers)
       IN  \E started \in BOOLEAN, raises \in BOOLEAN :
             PlayRepeated(tm.left, tm.tok, playToken, Tail(timers), contActive,
                          filterMode, index, spoken, started, raises)
    /\ UNCHANGED <<config, index, filterMode, playToken, contActive, contDelay,
                   cbAutoplay, quiet, cmds, pure>>

FirePoll ==
    /\ Due("poll")
    /\ LET tm == Head(timers)
       IN  \E raises \in BOOLEAN :
             timers' = WaitUntilSilent(Tail(timers), tm.left, tm.tok, playToken,
                                       IsSpeaking(speaking, raises), contActive)
    /\ NoSpeak
    /\ UNCHANGED <<config, index, filterMode, playToken, contActive, contDelay,
                   cbAutoplay, controls, speaking, spoken, quiet, cmds, pure>>

\* lambda: self._set_busy(False); tok is the token of the campaign that
\* scheduled it, which the lambda itself never looks at
FireIdle ==
    /\ Due("idle")
    /\ timers' = Tail(timers)
    /\ controls' = SetBusy(FALSE, contActive, filterMode, numLetters, index)
    /\ NoSpeak
    /\ UNCHANGED <<config, index, filterMode, playToken, contActive, contDelay,
                   cbAutoplay, speaking, spoken, quiet, cmds, pure>>

FireAdvance ==
    /\ Due("advance")
    /\ LET tm == Head(timers)
           nxt == NextVisibleIndex(filterMode, numLetters, index)
           to == IF nxt = NoIndex THEN FirstOfMode(filterMode) ELSE nxt
       IN  IF ~contActive \/ AdvanceTokenStale(tm.tok, playToken)
           THEN /\ timers' = Tail(timers)
                /\ NoSpeak
                /\ UNCHANGED <<index, controls, speaking, spoken>>
           ELSE /\ index' = RefreshIndex(numLetters, to)
                /\ \E started \in BOOLEAN, raises \in BOOLEAN :
                     PlayRepeated(Repeats(ttsRepeats), tm.tok, playToken,
                                  Tail(timers), contActive, filterMode, index', 0,
                                  started, raises)
    /\ UNCHANGED <<config, filterMode, playToken, contActive, contDelay,
                   cbAutoplay, quiet, cmds, pure>>

\* ------------------------------------------------------------ environment
Tick ==
    /\ timers # << >>
    /\ Head(timers).due > 0
    /\ timers' = [j \in 1..Len(timers) |->
                    [timers[j] EXCEPT !.due = timers[j].due - TickMs]]
    /\ NoSpeak
    /\ UNCHANGED <<config, index, filterMode, playToken, contActive, contDelay,
                   cbAutoplay, controls, speaking, spoken, quiet, cmds, pure>>

SpeakerDone ==
    /\ speaking
    /\ speaking' = FALSE
    /\ NoSpeak
    /\ UNCHANGED <<config, index, filterMode, playToken, contActive, contDelay,
                   cbAutoplay, controls, timers, spoken, quiet, cmds, pure>>

Fire == FirePlay \/ FirePoll \/ FireIdle \/ FireAdvance

Command ==
    \/ OnPlay
    \/ OnAutoplayToggled
    \/ OnRateChanged
    \/ \E mode \in Modes : OnFilterChanged(mode)
    \/ OnNext
    \/ OnPrev
    \/ \E secs \in SecChoices : OnIntervalChanged(secs)

\* user commands are counted, and no more than MaxCommands are accepted
Counted == cmds < MaxCommands /\ cmds' = cmds + 1 /\ UNCHANGED pure

Next ==
    \/ OnPlay /\ Counted
    \/ OnAutoplayToggled /\ Counted
    \/ OnRateChanged /\ Counted
    \/ \E mode \in Modes : OnFilterChanged(mode) /\ Counted
    \/ OnNext /\ Counted
    \/ OnPrev /\ Counted
    \/ \E secs \in SecChoices : OnIntervalChanged(secs) /\ Counted
    \/ FirePlay
    \/ FirePoll
    \/ FireIdle
    \/ FireAdvance
    \/ Tick
    \/ SpeakerDone

Spec == Init /\ [][Next]_vars

\* the event loop runs every expired timer, time passes, and an utterance ends
FairSpec ==
    /\ Spec
    /\ WF_vars(FirePlay)
    /\ WF_vars(FirePoll)
    /\ WF_vars(FireIdle)
    /\ WF_vars(FireAdvance)
    /\ WF_vars(Tick)
    /\ WF_vars(SpeakerDone)

\* the event loop runs every expired timer and time passes, but the engine
\* may go on reporting an utterance in progress for ever
OverReportSpec ==
    /\ Spec
    /\ WF_vars(FirePlay)
    /\ WF_vars(FirePoll)
    /\ WF_vars(FireIdle)
    /\ WF_vars(FireAdvance)
    /\ WF_vars(Tick)

\* ------------------------------------------------------------- navigation
\* The navigation of the window on its own: the handlers and the two index
\* functions are called directly, on every alphabet that is a prefix of the
\* shipped one or a single entry, and no timer callback runs.
NavAlphabets ==
    {Standard(n) : n \in 1..MaxLetters} \cup {<<c>> : c \in Categories}

Positions == (0 - 1)..MaxLetters

NavInit ==
    /\ letterType \in NavAlphabets
    /\ numLetters = Len(letterType)
    /\ filterMode \in Modes
    /\ autoPlaySound \in BOOLEAN
    /\ ttsRepeats = 0
    /\ ttsDelay = 0
    /\ contDelay = 0
    /\ index = InitIndex(filterMode, numLetters)
    /\ playToken = 0
    /\ contActive = FALSE
    /\ cbAutoplay = FALSE
    /\ controls = RefreshControls(
           [busy |-> FALSE, play |-> TRUE, next |-> TRUE, prev |-> TRUE],
           filterMode, numLetters, index)
    /\ speaking = FALSE
    /\ timers = << >>
    /\ spoken = 0
    /\ spokeTok = NoToken
    /\ spokeIdx = NoIndex
    /\ failed = FALSE
    /\ campaign = NoCampaign
    /\ quiet = FALSE
    /\ cmds = 0
    /\ NoCall
    /\ NoText
    /\ NoSpeech
    /\ NoTester

window == <<numLetters, letterType, ttsRepeats, ttsDelay, autoPlaySound, index,
            filterMode, playToken, contActive, contDelay, cbAutoplay, controls,
            speaking, timers, spoken, spokeTok, spokeIdx, failed, campaign,
            quiet, cmds>>

Call(op, start, result) ==
    /\ navOp' = op
    /\ arg' = start
    /\ found' = result
    /\ UNCHANGED <<window, shown, tts, tester>>

CallNextVisibleIndex(start) ==
    Call("next", start, NextVisibleIndex(filterMode, numLetters, start))

CallIsIndexVisible(start) ==
    Call("visible", start, IF IsIndexVisible(filterMode, start) THEN 1 ELSE 0)

CallPrevVisibleIndex(start) ==
    Call("prev", start, PrevVisibleIndex(filterMode, start))

\* back one visible entry and forward again, where there is one to go back to
CallPrevThenNext(start) ==
    LET prv == PrevVisibleIndex(filterMode, start)
    IN  /\ prv # NoIndex
        /\ Call("prev-next", start,
                NextVisibleIndex(filterMode, numLetters, prv))

CallNextThenPrev(start) ==
    LET nxt == NextVisibleIndex(filterMode, numLetters, start)
    IN  /\ nxt # NoIndex
        /\ Call("next-prev", start, PrevVisibleIndex(filterMode, nxt))

\* a handler called as a command: it is counted, and arg keeps the cursor it
\* was called at
Handled(op) ==
    /\ cmds < MaxCommands
    /\ cmds' = cmds + 1
    /\ navOp' = op
    /\ arg' = index
    /\ found' = NoIndex
    /\ UNCHANGED <<shown, tts, tester>>

NavNext ==
    \/ \E start \in Positions : CallNextVisibleIndex(start)
    \/ \E start \in Positions : CallPrevVisibleIndex(start)
    \/ \E start \in Positions : CallIsIndexVisible(start)
    \/ \E start \in Positions : CallPrevThenNext(start)
    \/ \E start \in Positions : CallNextThenPrev(start)
    \/ GoNext /\ Handled("on_next")
    \/ GoPrev /\ Handled("on_prev")
    \/ \E mode \in Modes : OnFilterChanged(mode) /\ Handled("on_filter_changed")

NavSpec == NavInit /\ [][NavNext]_vars

\* ------------------------------------------------------------------- text
\* The two text functions, _highlight_matra_cluster and _cluster_positions,
\* on their own.  A text is a sequence of code points out of a small
\* repertoire of Devanagari and ASCII: the letter KA (U+0915), the vowel sign I
\* (U+093F, a spacing mark), the sign NUKTA (U+093C, a combining mark), the
\* letter QA (U+0958, whose canonical decomposition is KA NUKTA and which is
\* excluded from composition) and the ampersand.
CodePoints == {"ka", "i", "nukta", "qa", "&"}
\* the code points that extend the grapheme cluster before them
Marks == {"i", "nukta"}

RECURSIVE SeqsUpTo(_, _)
SeqsUpTo(chars, n) ==
    IF n = 0
    THEN {<< >>}
    ELSE LET shorter == SeqsUpTo(chars, n - 1)
         IN  shorter \cup {Append(t, c) : t \in shorter, c \in chars}

Texts == SeqsUpTo(CodePoints, MaxTextLen)
Deps == SeqsUpTo(CodePoints, MaxDepLen)

RECURSIVE Flatten(_)
Flatten(parts) ==
    IF parts = << >> THEN << >> ELSE Head(parts) \o Flatten(Tail(parts))

\* unicodedata.normalize("NFC", t)
Nfc(t) == Flatten([k \in 1..Len(t) |->
                     IF t[k] = "qa" THEN <<"ka", "nukta">> ELSE <<t[k]>>])

\* html.escape(t)
Escape(t) == Flatten([k \in 1..Len(t) |->
                        IF t[k] = "&" THEN <<"&", "a", "m", "p", ";">>
                        ELSE <<t[k]>>])

\* t[a:b]
Slice(t, a, b) == SubSeq(t, a + 1, b)

\* needle in cl
Contains(needle, cl) ==
    \E k \in 0..(Len(cl) - Len(needle)) : Slice(cl, k, k + Len(needle)) = needle

\* a segmentation in which no code point extends the cluster before it
NoExtend(t, j) == j

\* where the extended grapheme cluster that holds position j - 1 ends
RECURSIVE GraphemeEnd(_, _)
GraphemeEnd(t, j) ==
    IF j < Len(t) /\ t[j + 1] \in Marks THEN GraphemeEnd(t, j + 1) ELSE j

\* the spans of the matches of \X in t, from position a on
RECURSIVE XSpans(_, _)
XSpans(t, a) ==
    IF a >= Len(t)
    THEN << >>
    ELSE LET b == GraphemeEnd(t, a + 1)
         IN  <<<<a, b>>>> \o XSpans(t, b)

\* one cluster that is the first code point alone, the rest left out
FirstBases(t) == IF t = << >> THEN << >> ELSE <<<<Head(t)>>>>

\* _REGEX.findall(r"\X", t)
FindAllX(t) ==
    LET xs == XSpans(t, 0)
    IN  [k \in 1..Len(xs) |-> Slice(t, xs[k][1], xs[k][2])]

\* spans that stop one code point short of the end
AllButLast(t) == [i \in 1..(Len(t) - 1) |-> <<i - 1, i>>]

\* [(i, i + 1) for i in range(len(text))]
FallbackSpans(t) == [i \in 1..Len(t) |-> <<i - 1, i>>]

\* the spans of \X whether or not the module is there
AlwaysSegmented(t, loaded, raises) == XSpans(t, 0)

\* ExampleMatraPointer._cluster_positions
ClusterPositions(t, loaded, raises) ==
    IF ~loaded
    THEN FallbackSpans(t)
    ELSE IF raises THEN FallbackSpans(t) ELSE XSpans(t, 0)

\* the last of the spans cl, from the k-th on, whose slice of t holds d
RECURSIVE LastHolding(_, _, _, _)
LastHolding(t, cl, d, k) ==
    IF k > Len(cl)
    THEN << >>
    ELSE LET later == LastHolding(t, cl, d, k + 1)
         IN  IF later # << >> THEN later
             ELSE IF Contains(d, Slice(t, cl[k][1], cl[k][2])) THEN cl[k]
             ELSE << >>

\* for (a, b) in clusters: if self._dep in left[a:b]: ...; break
RECURSIVE FirstHolding(_, _, _, _)
FirstHolding(t, cl, d, k) ==
    IF k > Len(cl)
    THEN << >>
    ELSE IF Contains(d, Slice(t, cl[k][1], cl[k][2]))
         THEN cl[k]
         ELSE FirstHolding(t, cl, d, k + 1)

\* ExampleMatraPointer.paintEvent, up to target_span
TargetSpan(t, d, loaded, raises) ==
    IF t = << >> \/ d = << >>
    THEN << >>
    ELSE LET left == Nfc(t)
         IN  FirstHolding(left, ClusterPositions(left, loaded, raises), d, 1)

SpanOpen == "<span style=...>"
SpanClose == "</span>"

\* every cluster in a span of its own
StyleEveryCluster(t, d, loaded, raises) ==
    LET clusters == FindAllX(t)
    IN  Flatten([k \in 1..Len(clusters) |->
                   <<SpanOpen>> \o Escape(clusters[k]) \o <<SpanClose>>])

\* MainWindow._highlight_matra_cluster
HighlightMatraCluster(t, d, loaded, raises) ==
    IF d = << >>
    THEN Escape(t)
    ELSE LET normal == Nfc(t)
         IN  IF ~loaded
             THEN Escape(normal)
             ELSE IF raises
                  THEN Escape(normal)
                  ELSE LET clusters == FindAllX(normal)
                       IN  Flatten([k \in 1..Len(clusters) |->
                             IF d # << >> /\ Contains(d, clusters[k])
                             THEN <<SpanOpen>> \o Escape(clusters[k])
                                  \o <<SpanClose>>
                             ELSE Escape(clusters[k])])

TextInit ==
    /\ text \in Texts
    /\ dep \in Deps
    /\ regexLoaded \in BOOLEAN
    /\ raised = FALSE
    /\ markup = << >>
    /\ spans = << >>
    /\ target = << >>
    /\ textOp = "none"
    /\ letterType = Standard(MaxLetters)
    /\ numLetters = MaxLetters
    /\ filterMode = "both"
    /\ autoPlaySound = FALSE
    /\ ttsRepeats = 0
    /\ ttsDelay = 0
    /\ contDelay = 0
    /\ index = InitIndex(filterMode, numLetters)
    /\ playToken = 0
    /\ contActive = FALSE
    /\ cbAutoplay = FALSE
    /\ controls = RefreshControls(
           [busy |-> FALSE, play |-> TRUE, next |-> TRUE, prev |-> TRUE],
           filterMode, numLetters, index)
    /\ speaking = FALSE
    /\ timers = << >>
    /\ spoken = 0
    /\ spokeTok = NoToken
    /\ spokeIdx = NoIndex
    /\ failed = FALSE
    /\ campaign = NoCampaign
    /\ quiet = FALSE
    /\ cmds = 0
    /\ NoCall
    /\ NoSpeech
    /\ NoTester

\* the \X match can raise only where there is a regex module to call
CallHighlightMatraCluster(raises) ==
    /\ raises => regexLoaded /\ dep # << >>
    /\ textOp' = "highlight"
    /\ raised' = raises
    /\ markup' = HighlightMatraCluster(text, dep, regexLoaded, raises)
    /\ UNCHANGED <<text, dep, regexLoaded, spans, target, window, arg, found,
                   navOp, tts, tester>>

CallClusterPositions(raises) ==
    /\ raises => regexLoaded
    /\ textOp' = "clusters"
    /\ raised' = raises
    /\ spans' = ClusterPositions(text, regexLoaded, raises)
    /\ UNCHANGED <<text, dep, regexLoaded, markup, target, window, arg, found,
                   navOp, tts, tester>>

CallPaintEvent(raises) ==
    /\ raises => regexLoaded /\ text # << >> /\ dep # << >>
    /\ textOp' = "paint"
    /\ raised' = raises
    /\ target' = TargetSpan(text, dep, regexLoaded, raises)
    /\ UNCHANGED <<text, dep, regexLoaded, markup, spans, window, arg, found,
                   navOp, tts, tester>>

TextNext ==
    \/ \E raises \in BOOLEAN : CallHighlightMatraCluster(raises)
    \/ \E raises \in BOOLEAN : CallClusterPositions(raises)
    \/ \E raises \in BOOLEAN : CallPaintEvent(raises)

TextSpec == TextInit /\ [][TextNext]_vars

\* ---------------------------------------------------------------- speaker
\* The two players, HindiTTSPlayerMac and HindiTTSPlayer, on their own: the
\* constructor has run, and set_rate and play_for are called directly.  What
\* the engine does is drawn: whether a call to it raises, whether
\* pyttsx3.init() hands back the engine it made before or a new one, and the
\* rate a new engine starts with.
Players == {"HindiTTSPlayerMac", "HindiTTSPlayer"}
Rates == {FallbackRate - 50, FallbackRate, FallbackRate + 50}
\* getProperty("rate") of a new engine: a rate, or nothing
FreshRates == Rates \cup {0}
HindiVoices == {NoVoice, "com.apple.speech.synthesis.voice.lekha", "hi-IN"}
\* symbols with and without a code point of the Devanagari block: the letter
\* KA, the code points next to either end of the block, and a Latin letter
Symbols ==
    {<<DevanagariFirst + 21>>, <<DevanagariFirst>>, <<DevanagariLast>>,
     <<DevanagariFirst - 1>>, <<DevanagariLast + 1>>, <<65>>,
     <<65, DevanagariFirst + 21>>}

\* any('ऀ' <= ch <= 'ॿ' for ch in text)
HasDevanagari(t) ==
    \E k \in 1..Len(t) : DevanagariFirst <= t[k] /\ t[k] <= DevanagariLast

\* bool(self._voice_id)
Truthy(v) == v \notin {NoVoice, ""}

\* a player that speaks the symbol whatever the voice
AlwaysSymbol(vid, sym) == "symbol"

\* HindiTTSPlayerMac.play_for: the choice of speak_text
SpeakTextMac(vid, sym) ==
    IF Truthy(vid) \/ ~HasDevanagari(sym) THEN "symbol" ELSE "pronunciation"

\* HindiTTSPlayer.play_for: the choice of speak_text
SpeakTextPyttsx3(vid, sym) ==
    IF vid = NoVoice /\ HasDevanagari(sym) THEN "pronunciation" ELSE "symbol"

\* _maybe_select_hindi_voice on an engine whose voice is ev: <<_voice_id,
\* voice of the engine>> afterwards; works says that no call to the engine
\* raised
MaybeSelectHindiVoice(works, vid, ev) ==
    IF works /\ hindiVoice # NoVoice
    THEN <<hindiVoice, hindiVoice>>
    ELSE <<vid, ev>>

\* _reinit_engine after pyttsx3.init() returned: <<_voice_id, rate, voice>>
\* of the player afterwards.  fresh: init() made a new engine, whose rate is
\* rate0 and whose voice is the default one.
ReinitEngine(fresh, rate0, voiceOk, selectWorks) ==
    LET got == IF fresh THEN rate0 ELSE engineRate
        rate == IF got = 0 THEN FallbackRate ELSE got
        voice == IF fresh THEN DefaultVoice ELSE engineVoice
        sel == MaybeSelectHindiVoice(selectWorks, voiceId, voice)
    IN  IF Truthy(voiceId)
        THEN IF voiceOk
             THEN <<voiceId, rate, voiceId>>
             ELSE <<sel[1], rate, sel[2]>>
        ELSE <<sel[1], rate, sel[2]>>

\* a player that gives up after the first failure
NoRetry(fails, initRaises) == 1

\* HindiTTSPlayer.play_for: the calls of say() it makes
Attempts(fails, initRaises) ==
    IF ~fails THEN 1 ELSE IF initRaises THEN 1 ELSE 2

\* a request of play_for to the engine, and whether it went through
Request(op, ok) == [op |-> op, ok |-> ok]

\* an attempt that starts the utterance with no stop before it
StartOnly(stopFails, startFails) == <<Request("start", ~startFails)>>

\* HindiTTSPlayer.play_for, one attempt: engine.stop() in a try of its own,
\* then say() and runAndWait()
StopThenStart(stopFails, startFails) ==
    <<Request("stop", ~stopFails), Request("start", ~startFails)>>

\* HindiTTSPlayerMac.play_for: stopSpeaking() and startSpeakingString_() in
\* one try, so a stop that raises leaves the start out
RequestsMac(stopFails, fails) ==
    IF stopFails
    THEN <<Request("stop", FALSE)>>
    ELSE <<Request("stop", TRUE), Request("start", ~fails)>>

IdleWindow ==
    /\ letterType = Standard(MaxLetters)
    /\ numLetters = MaxLetters
    /\ filterMode = "both"
    /\ autoPlaySound = FALSE
    /\ ttsRepeats = 0
    /\ ttsDelay = 0
    /\ contDelay = 0
    /\ index = InitIndex(filterMode, numLetters)
    /\ playToken = 0
    /\ contActive = FALSE
    /\ cbAutoplay = FALSE
    /\ controls = RefreshControls(
           [busy |-> FALSE, play |-> TRUE, next |-> TRUE, prev |-> TRUE],
           filterMode, numLetters, index)
    /\ speaking = FALSE
    /\ timers = << >>
    /\ spoken = 0
    /\ spokeTok = NoToken
    /\ spokeIdx = NoIndex
    /\ failed = FALSE
    /\ campaign = NoCampaign
    /\ quiet = FALSE
    /\ cmds = 0

\* after HindiTTSPlayerMac.__init__ or HindiTTSPlayer.__init__
SpeakerInit ==
    /\ player \in Players
    /\ hindiVoice \in HindiVoices
    /\ voiceId \in {NoVoice, hindiVoice}
    /\ engineRate \in Rates
    /\ engineVoice = IF voiceId = NoVoice THEN DefaultVoice ELSE voiceId
    /\ symbol = << >>
    /\ said = "none"
    /\ attempts = 0
    /\ reinits = 0
    /\ firstFailed = FALSE
    /\ escaped = FALSE
    /\ calls = << >>
    /\ ttsOp = "none"
    /\ IdleWindow
    /\ NoCall
    /\ NoText
    /\ NoTester

\* set_rate of either player: an exception of the engine is passed over
SetRate(rate, raises) ==
    /\ ttsOp' = "set_rate"
    /\ engineRate' = IF raises THEN engineRate ELSE rate
    /\ UNCHANGED <<player, hindiVoice, voiceId, engineVoice, symbol, said,
                   attempts, reinits, firstFailed, escaped, calls>>
    /\ UNCHANGED <<window, arg, found, navOp, shown, tester>>

PlayForMac(sym, fails) ==
    /\ player = "HindiTTSPlayerMac"
    /\ ttsOp' = "play_for"
    /\ symbol' = sym
    /\ said' = SpeakTextMac(voiceId, sym)
    /\ attempts' = 1
    /\ reinits' = 0
    /\ firstFailed' = fails
    /\ escaped' = FALSE
    /\ \E stopFails \in BOOLEAN :
         /\ stopFails => fails
         /\ calls' = RequestsMac(stopFails, fails)
    /\ UNCHANGED <<player, hindiVoice, voiceId, engineRate, engineVoice>>
    /\ UNCHANGED <<window, arg, found, navOp, shown, tester>>

\* fails: say() or runAndWait() raised on the first attempt; initRaises:
\* pyttsx3.init() raised inside _reinit_engine, which the handler of the
\* first failure does not guard.  A failure of the second attempt is logged
\* and changes nothing.  Either attempt asks the engine to stop first, and a
\* stop that raises is passed over.
PlayForPyttsx3(sym, fails, initRaises, fresh, rate0, voiceOk, selectWorks) ==
    /\ player = "HindiTTSPlayer"
    /\ ttsOp' = "play_for"
    /\ symbol' = sym
    /\ said' = SpeakTextPyttsx3(voiceId, sym)
    /\ attempts' = Attempts(fails, initRaises)
    /\ reinits' = IF fails THEN 1 ELSE 0
    /\ firstFailed' = fails
    /\ escaped' = (fails /\ initRaises)
    /\ \E stopFails \in BOOLEAN :
         IF fails /\ ~initRaises
         THEN \E stopFailsAgain \in BOOLEAN, failsAgain \in BOOLEAN :
                calls' = StopThenStart(stopFails, fails)
                           \o StopThenStart(stopFailsAgain, failsAgain)
         ELSE calls' = StopThenStart(stopFails, fails)
    /\ IF fails /\ ~initRaises
       THEN LET after == ReinitEngine(fresh, rate0, voiceOk, selectWorks)
            IN  /\ voiceId' = after[1]
                /\ engineRate' = after[2]
                /\ engineVoice' = after[3]
       ELSE UNCHANGED <<voiceId, engineRate, engineVoice>>
    /\ UNCHANGED <<player, hindiVoice>>
    /\ UNCHANGED <<window, arg, found, navOp, shown, tester>>

SpeakerNext ==
    \/ \E rate \in Rates, raises \in BOOLEAN : SetRate(rate, raises)
    \/ \E sym \in Symbols, fails \in BOOLEAN : PlayForMac(sym, fails)
    \/ \E sym \in Symbols, fails \in BOOLEAN, initRaises \in BOOLEAN,
          fresh \in BOOLEAN, rate0 \in FreshRates, voiceOk \in BOOLEAN,
          selectWorks \in BOOLEAN :
         PlayForPyttsx3(sym, fails, initRaises, fresh, rate0, voiceOk,
                        selectWorks)

SpeakerSpec == SpeakerInit /\ [][SpeakerNext]_vars

\* ----------------------------------------------------------- entryTester
\* main of utilities/entryTester.py from the point where pick_entry has
\* returned an entry of the loaded file, or None: the exit when there is no
\* entry, the backup, the write of the single-entry file, the launch of the
\* app and the restore in the finally clause.  Any of the last four may
\* raise; what a copy or a write that raised leaves of its destination is
\* drawn.
Entries == {"ka", "kha"}
Lists == {l \in SeqsUpTo(Entries, MaxEntries) : l # << >>}

\* a copy that leaves the destination as it was
KeepOld(src, dst) == dst

\* shutil.copy2(src, dst): dst is overwritten
Copy2(src, dst) == src

TesterInit ==
    /\ \E letters \in Lists :
         /\ appYaml = File(letters)
         /\ entry \in {letters[k] : k \in 1..Len(letters)} \cup {NoEntry}
    /\ backupYaml \in {Absent} \cup {File(l) : l \in Lists}
    /\ prior = appYaml
    /\ staleBackup = backupYaml
    /\ step = "pick"
    /\ broke = "none"
    /\ IdleWindow
    /\ NoCall
    /\ NoText
    /\ NoSpeech

\* if not entry: sys.exit(1)
Picked ==
    /\ step = "pick"
    /\ IF entry = NoEntry
       THEN step' = "done" /\ broke' = "exit"
       ELSE step' = "backup" /\ UNCHANGED broke
    /\ UNCHANGED <<appYaml, backupYaml, entry, prior, staleBackup, window, arg,
                   found, navOp, shown, tts>>

\* if app_yaml.exists(): shutil.copy2(app_yaml, backup_yaml)
Backup(raises) ==
    /\ step = "backup"
    /\ IF ~appYaml.there
       THEN /\ step' = "write"
            /\ UNCHANGED <<backupYaml, broke>>
       ELSE IF raises
       THEN /\ backupYaml' \in {backupYaml, Truncated, Copy2(appYaml, backupYaml)}
            /\ broke' = "backup"
            /\ step' = "restore"
       ELSE /\ backupYaml' = Copy2(appYaml, backupYaml)
            /\ step' = "write"
            /\ UNCHANGED broke
    /\ UNCHANGED <<appYaml, entry, prior, staleBackup, window, arg, found,
                   navOp, shown, tts>>

\* with app_yaml.open('w') as f: yaml.safe_dump(single_list, f, ...)
WriteEntry(raises) ==
    /\ step = "write"
    /\ IF raises
       THEN /\ appYaml' \in {appYaml, Truncated}
            /\ broke' = "write"
            /\ step' = "restore"
       ELSE /\ appYaml' = File(<<entry>>)
            /\ step' = "launch"
            /\ UNCHANGED broke
    /\ UNCHANGED <<backupYaml, entry, prior, staleBackup, window, arg, found,
                   navOp, shown, tts>>

\* subprocess.run([sys.executable, main.py]): returns when the app exits,
\* whatever its exit status, or raises
Launch(raises) ==
    /\ step = "launch"
    /\ broke' = IF raises THEN "launch" ELSE broke
    /\ step' = "restore"
    /\ UNCHANGED <<appYaml, backupYaml, entry, prior, staleBackup, window, arg,
                   found, navOp, shown, tts>>

\* finally: if backup_yaml.exists(): shutil.move(backup_yaml, app_yaml)
Restore(raises) ==
    /\ step = "restore"
    /\ step' = "done"
    /\ IF backupYaml.there /\ ~raises
       THEN /\ appYaml' = backupYaml
            /\ backupYaml' = Absent
            /\ UNCHANGED broke
       ELSE /\ broke' = IF backupYaml.there THEN "restore" ELSE broke
            /\ UNCHANGED <<appYaml, backupYaml>>
    /\ UNCHANGED <<entry, prior, staleBackup, window, arg, found, navOp, shown,
                   tts>>

TesterNext ==
    \/ Picked
    \/ \E raises \in BOOLEAN : Backup(raises)
    \/ \E raises \in BOOLEAN : WriteEntry(raises)
    \/ \E raises \in BOOLEAN : Launch(raises)
    \/ \E raises \in BOOLEAN : Restore(raises)

TesterSpec == TesterInit /\ [][TesterNext]_vars

\* ----------------------------------------------------------------- claims
\* the expired timer about to run was captured with a token no longer current
StaleHead == timers # << >> /\ Head(timers).tok # playToken

\* a command that starts a campaign, or stops the continuous cycle
Supersedes ==
    \/ OnPlay
    \/ OnAutoplayToggled
    \/ OnRateChanged
    \/ /\ autoPlaySound
       /\ index' # index \/ filterMode' # filterMode
       /\ OnNext \/ OnPrev \/ \E mode \in Modes : OnFilterChanged(mode)

Pending(kinds, tok) ==
    {j \in 1..Len(timers) : timers[j].kind \in kinds /\ timers[j].tok = tok}

\* C1: a continuation whose captured token differs from the current token
\* changes nothing: not the busy/idle state of the controls, not the cursor,
\* not the speaker. (The trailing-delay callback breaks it.)
C1_StaleContinuationIsNoOp ==
    [][(Fire /\ StaleHead) => UNCHANGED <<controls, index, speaking>>]_vars

\* C2: once a command has started a new campaign or stopped the continuous
\* cycle, every continuation pending from before carries another token than
\* the current one, and a continuation that runs with such a token makes no
\* play_for call and does not move the cursor.
C2_SupersededCampaignIsSilent ==
    [][/\ Supersedes => \A j \in 1..Len(timers) : timers[j].tok # playToken'
       /\ (Fire /\ StaleHead) => (spokeTok' = NoToken /\ index' = index)]_vars

\* a poll, repeat or advance of a superseded campaign is about to run
C2_Witness ==
    /\ StaleHead
    /\ Head(timers).due = 0
    /\ Head(timers).kind \in {"play", "poll", "advance"}
    /\ controls.busy

\* C3: the token never decreases, and every command that starts a campaign
\* or stops the continuous cycle makes it strictly greater than the token of
\* every continuation scheduled before the command.
C3_TokenMonotonic ==
    [][/\ playToken' >= playToken
       /\ Supersedes => \A j \in 1..Len(timers) : timers[j].tok < playToken']_vars

\* two commands have raised the token while a continuation was pending
C3_Witness ==
    /\ playToken >= 2
    /\ cmds = MaxCommands
    /\ \E j \in 1..Len(timers) : timers[j].tok < playToken

\* C4: when the controls go from busy to idle, the campaign that made them
\* busy has made exactly Repeats(ttsRepeats) play_for calls. (Fails through
\* the trailing-delay callback of C1.)
C4_ExactlyNSpeaksBeforeIdle ==
    [][(FireIdle /\ controls.busy /\ ~controls'.busy)
         => spoken = Repeats(ttsRepeats)]_vars

\* C5: a repeat or the next letter of the cycle is never spoken while the
\* trailing delay of the utterance before it, under the same token, is still
\* running or its poll is still pending.
C5_StrictlySequential ==
    [][((FirePlay \/ FireAdvance) /\ spokeTok' # NoToken)
         => Pending({"idle", "poll"}, spokeTok') = {}]_vars

\* C6: with continuous mode inactive the controls never stay busy: whatever
\* the engine did on play_for or is_speaking, and whether or not the campaign
\* that made them busy was superseded, they become idle again.
C6_NeverStuckBusy ==
    (controls.busy /\ ~contActive) ~> (~controls.busy \/ contActive)

\* the controls are idle again after a campaign that superseded another
C6_Witness ==
    /\ ~controls.busy
    /\ ~contActive
    /\ ~quiet
    /\ timers = << >>
    /\ playToken >= 2
    /\ spoken = Repeats(ttsRepeats)

VisibleAfter(i) ==
    {j \in (i + 1)..(numLetters - 1) : IsIndexVisible(filterMode, j)}

WrapTarget ==
    LET anchor == IF filterMode = "consonants" THEN FirstConsonant ELSE 0
    IN  IF anchor < numLetters THEN anchor ELSE 0

C8_ContinuousCycles ==
    \/ []<>(~contActive)
    \/ []<><<FireAdvance /\ spokeTok' = playToken>>_vars

\* the cycle has gone on to a later letter after a command came in between
C8_Witness ==
    /\ contActive
    /\ ~autoPlaySound
    /\ playToken >= 2
    /\ index > FirstConsonant
    /\ spoken = 1
    /\ spokeTok = playToken

\* C9: _stop_continuous leaves the controls idle, the cycle inactive and the
\* token strictly larger; until the next command no step moves the cursor,
\* calls play_for, makes the controls busy or changes the token.
C9_StopContinuousStays ==
    [][/\ (quiet' /\ cmds' # cmds)
          => (~controls'.busy /\ ~contActive' /\ playToken' > playToken)
       /\ (quiet /\ cmds' = cmds)
          => /\ index' = index
             /\ spokeTok' = NoToken
             /\ ~controls'.busy
             /\ ~contActive'
             /\ playToken' = playToken]_vars

\* the cycle was stopped with a continuation pending, which is about to run
C9_Witness ==
    /\ quiet
    /\ timers # << >>
    /\ Head(timers).due = 0
    /\ Head(timers).kind \in {"play", "poll", "advance"}

\* C10: at most one pending continuation that can still lead to a play_for
\* call carries the current token.
C10_OneLiveContinuation ==
    Cardinality(Pending({"play", "poll", "advance"}, playToken)) <= 1

\* one continuation of the current campaign is pending beside a stale one
C10_Witness ==
    /\ Cardinality(Pending({"play", "poll", "advance"}, playToken)) = 1
    /\ \E j \in 1..Len(timers) :
         timers[j].kind \in {"play", "poll", "advance"} /\ timers[j].tok < playToken

\* ------------------------------------------------- claims on navigation
Existing == 0..(numLetters - 1)

FilterChanged == navOp' = "on_filter_changed" /\ \E mode \in Modes : OnFilterChanged(mode)

FirstConsonantEntry ==
    LET cs == {i \in Existing : letterType[i + 1] = "consonant"}
    IN  IF cs = {} THEN NoIndex ELSE CHOOSE i \in cs : \A j \in cs : i <= j

C13_VisibleByCategory ==
    \A i \in Existing :
      /\ IsIndexVisible("vowels", i) <=> letterType[i + 1] = "vowel"
      /\ IsIndexVisible("consonants", i) <=> letterType[i + 1] = "consonant"
      /\ IsIndexVisible("both", i)

\* C13, amended: visibility is a partition by position: the positions below
\* 13 are the ones visible under the vowels, the positions from 13 on the
\* ones visible under the consonants, every position is visible under both,
\* and each position is visible under exactly one of vowels and consonants;
\* for the alphabet as shipped this is the partition by category.
C13_VisibleByPosition ==
    /\ \A i \in Positions :
         /\ IsIndexVisible("vowels", i) <=> i < FirstConsonant
         /\ IsIndexVisible("consonants", i) <=> i >= FirstConsonant
         /\ IsIndexVisible("both", i)
         /\ IsIndexVisible("vowels", i) # IsIndexVisible("consonants", i)
    /\ navOp = "visible" =>
         found = IF \/ filterMode = "both"
                    \/ filterMode = "vowels" /\ arg < FirstConsonant
                    \/ filterMode = "consonants" /\ arg >= FirstConsonant
                 THEN 1 ELSE 0
    /\ letterType = Standard(numLetters) =>
         \A i \in Existing :
           IsIndexVisible("vowels", i) <=> letterType[i + 1] = "vowel"

\* the first consonant of the shipped layout was asked for under the consonants
C13_Witness ==
    /\ navOp = "visible"
    /\ filterMode = "consonants"
    /\ numLetters > FirstConsonant
    /\ arg = FirstConsonant
    /\ found = 1

\* C14: _next_visible_index returns the least existing position after its
\* argument that is visible under the filter, and None when there is none,
\* for every argument.
C14_NextIsLeastVisibleAfter ==
    navOp = "next" =>
      LET after == {j \in Existing : j > arg /\ IsIndexVisible(filterMode, j)}
      IN  IF after = {} THEN found = NoIndex
          ELSE found \in after /\ \A j \in after : found <= j

\* a call that skipped the vowels to reach the first consonant
C14_Witness ==
    /\ navOp = "next"
    /\ filterMode = "consonants"
    /\ arg < FirstConsonant - 1
    /\ found = FirstConsonant

C16_RoundTrip ==
    (/\ navOp \in {"prev-next", "next-prev"}
     /\ arg \in Existing
     /\ IsIndexVisible(filterMode, arg)) => found = arg

\* back from the last consonant and forward to it again
C16_Witness ==
    /\ navOp = "prev-next"
    /\ filterMode = "consonants"
    /\ arg = MaxLetters - 1
    /\ found = arg

NextNone == NextVisibleIndex(filterMode, numLetters, index) = NoIndex

PrevNone == PrevVisibleIndex(filterMode, index) = NoIndex

Strip(m) == SelectSeq(m, LAMBDA c : c \notin {SpanOpen, SpanClose})

\* where the first marker mk stands in m, Len(m) + 1 when nowhere
RECURSIVE MarkerAt(_, _, _)
MarkerAt(m, mk, k) ==
    IF k > Len(m) \/ m[k] = mk THEN k ELSE MarkerAt(m, mk, k + 1)

\* what stands between each opening marker and its closing marker, in order
RECURSIVE StyledParts(_)
StyledParts(m) ==
    LET open == MarkerAt(m, SpanOpen, 1)
        close == MarkerAt(m, SpanClose, open)
    IN  IF open > Len(m)
        THEN << >>
        ELSE <<SubSeq(m, open + 1, close - 1)>>
             \o StyledParts(SubSeq(m, close + 1, Len(m)))

\* the escaped clusters among cls that hold the needle, in order
Holding(cls, needle) ==
    LET hits == SelectSeq(cls, LAMBDA cl : needle # << >> /\ Contains(needle, cl))
    IN  [k \in 1..Len(hits) |-> Escape(hits[k])]

\* the clusters the spans sp cut out of t
Cut(t, sp) == [k \in 1..Len(sp) |-> Slice(t, sp[k][1], sp[k][2])]

\* C18 as stated: for every text and every needle, the markup of highlight
\* with the style markers removed is the escaped original text.
C18_StrippedIsEscapedText ==
    textOp = "highlight" => Strip(markup) = Escape(text)

\* C18: for every text and every needle, the markup of highlight with the
\* style markers removed is the escaped original text when the needle is
\* empty, and the escaped NFC form of the text when it is not; nothing of that
\* form is lost, added or reordered.
C18_StrippedIsEscapedNfc ==
    textOp = "highlight" =>
        Strip(markup) = Escape(IF dep = << >> THEN text ELSE Nfc(text))

\* a text that NFC leaves alone, with an ampersand and a styled cluster
C18_Witness ==
    /\ textOp = "highlight"
    /\ text = <<"&", "ka", "i">>
    /\ dep = <<"i">>
    /\ markup # Strip(markup)
    /\ Strip(markup) = <<"&", "a", "m", "p", ";", "ka", "i">>

\* C19 as stated: highlight styles a cluster of the text, as clusters(text)
\* cuts it on the path taken, exactly when it contains the needle; with an
\* empty needle none is styled.
C19_StyledIffContains ==
    textOp = "highlight" =>
        StyledParts(markup)
            = Holding(Cut(text, ClusterPositions(text, regexLoaded, raised)), dep)

\* C19: when the regex module is loaded and its \X match does not raise,
\* highlight styles a grapheme cluster of the NFC form of the text, as a
\* whole, exactly when it contains the needle; when the module is missing or
\* the match raises, and when the needle is empty, no cluster is styled.
C19_StyledIffContainsSegmented ==
    textOp = "highlight" =>
        StyledParts(markup)
            = IF regexLoaded /\ ~raised
              THEN Holding(Cut(Nfc(text), XSpans(Nfc(text), 0)), dep)
              ELSE << >>

\* two clusters hold the needle and one between them does not
C19_Witness ==
    /\ textOp = "highlight"
    /\ text = <<"i", "ka", "i">>
    /\ dep = <<"i">>
    /\ regexLoaded
    /\ ~raised
    /\ StyledParts(markup) = << <<"i">>, <<"ka", "i">> >>

\* C20: the spans of clusters(text) are non-empty and in order, the first
\* starts at 0, each starts where the one before ends, and the last ends at
\* the length of the text, with the regex module and without it.
C20_SpansPartition ==
    textOp = "clusters" =>
        /\ \A k \in 1..Len(spans) : spans[k][1] < spans[k][2]
        /\ \A k \in 1..(Len(spans) - 1) : spans[k + 1][1] = spans[k][2]
        /\ spans = << >> <=> text = << >>
        /\ spans # << >> =>
               spans[1][1] = 0 /\ spans[Len(spans)][2] = Len(text)

\* a cluster of two code points cut by \X
C20_Witness ==
    /\ textOp = "clusters"
    /\ text = <<"ka", "i", "&">>
    /\ regexLoaded
    /\ ~raised
    /\ spans = << <<0, 2>>, <<2, 3>> >>

\* the spans sp whose slice of t holds the needle
HoldingSpans(t, sp, needle) ==
    {k \in 1..Len(sp) : Contains(needle, Slice(t, sp[k][1], sp[k][2]))}

\* target is the leftmost of the spans sp of t that hold the needle, and
\* none when no span holds it or the needle is empty
LeftmostOf(t, sp, needle) ==
    LET hold == HoldingSpans(t, sp, needle)
    IN  IF needle = << >> \/ hold = {}
        THEN target = << >>
        ELSE \E k \in hold : target = sp[k] /\ \A j \in hold : k <= j

\* C21 as stated: findClusterContaining returns the leftmost span of
\* clusters(text) whose substring contains the needle, none when no cluster
\* contains it and none when the needle is empty.
C21_LeftmostCluster ==
    textOp = "paint" =>
        LeftmostOf(text, ClusterPositions(text, regexLoaded, raised), dep)

\* C21: findClusterContaining returns the leftmost span, among the clusters
\* of the NFC form of the text, whose substring of that form contains the
\* needle, none when no such cluster contains it and none when the needle is
\* empty.
C21_LeftmostClusterOfNfc ==
    textOp = "paint" =>
        LeftmostOf(Nfc(text), ClusterPositions(Nfc(text), regexLoaded, raised),
                   dep)

\* two clusters hold the needle and the first of them is returned
C21_Witness ==
    /\ textOp = "paint"
    /\ text = <<"i", "ka", "i">>
    /\ dep = <<"i">>
    /\ regexLoaded
    /\ ~raised
    /\ target = <<0, 1>>

Letters == {"ka", "qa"}
VowelSigns == {"i"}

\* a letter of t directly followed by the vowel sign that is the needle, at
\* positions p - 1 and p
LetterThenSign(t, p) ==
    /\ p \in 1..(Len(t) - 1)
    /\ t[p] \in Letters
    /\ <<t[p + 1]>> = dep
    /\ t[p + 1] \in VowelSigns

\* C22 as stated: for a text in which a letter is directly followed by a
\* dependent vowel sign, the cluster located for that sign is one span that
\* covers the letter and the sign, never the sign alone.
C22_LetterAndSignInOneSpan ==
    (textOp = "paint" /\ \E p \in 1..Len(text) : LetterThenSign(text, p)) =>
        /\ target # << >>
        /\ \E p \in 1..Len(text) :
             /\ LetterThenSign(text, p)
             /\ target[1] <= p - 1
             /\ p + 1 <= target[2]

\* where the needle first stands in t, 0 when nowhere
FirstAt(t, needle) ==
    LET at == {p \in 1..Len(t) : <<t[p]>> = needle}
    IN  IF at = {} THEN 0 ELSE CHOOSE p \in at : \A q \in at : p <= q

\* C22: with the regex module loaded and its \X match not raising, when the
\* first dependent vowel sign equal to the needle in the NFC form of the text
\* directly follows a letter, the cluster located is one span of that form
\* that covers the letter and the sign; without the module, or when the match
\* raises, it is the single-code-point span of the sign alone.
C22_LetterAndSignIfSegmented ==
    LET left == Nfc(text)
        p == FirstAt(left, dep)
    IN  (textOp = "paint" /\ p > 1 /\ LetterThenSign(left, p - 1)) =>
            IF regexLoaded /\ ~raised
            THEN target # << >> /\ target[1] <= p - 2 /\ p <= target[2]
            ELSE target = <<p - 1, p>>

\* the letter KA, its vowel sign and one more letter, cut by \X
C22_Witness ==
    /\ textOp = "paint"
    /\ text = <<"ka", "i", "ka">>
    /\ dep = <<"i">>
    /\ regexLoaded
    /\ ~raised
    /\ target = <<0, 2>>

Degraded == ~regexLoaded \/ raised

\* C23 as stated: without segmentation, or when it fails, clusters(text) is
\* one span (i, i+1) for each code point, and highlight returns the escaped
\* text whole.
C23_DegradesToCodePoints ==
    Degraded =>
        /\ textOp = "clusters" =>
               /\ Len(spans) = Len(text)
               /\ \A k \in 1..Len(spans) : spans[k] = <<k - 1, k>>
        /\ textOp = "highlight" => markup = Escape(text)

\* C23: without segmentation, or when it fails, clusters(text) is one span
\* (i, i+1) for each code point, and highlight returns, with no style marker,
\* the escaped text when the needle is empty and the escaped NFC form of the
\* text when it is not.
C23_DegradesToCodePointsOfNfc ==
    Degraded =>
        /\ textOp = "clusters" =>
               /\ Len(spans) = Len(text)
               /\ \A k \in 1..Len(spans) : spans[k] = <<k - 1, k>>
        /\ textOp = "highlight" =>
               markup = Escape(IF dep = << >> THEN text ELSE Nfc(text))

\* the \X match raised on a text that it would have cut into two clusters
C23_Witness ==
    /\ textOp = "clusters"
    /\ text = <<"ka", "i", "&">>
    /\ regexLoaded
    /\ raised
    /\ Len(spans) = Len(text)

\* ---------------------------------------------------- claims on the speaker
\* C25 as stated: when the engine fails to speak, the Speaker is
\* reinitialized and the utterance is tried once more; one speak request makes
\* no more than two attempts and never raises.
C25_ReinitAndRetryOnce ==
    ttsOp = "play_for" =>
        /\ firstFailed => reinits = 1 /\ attempts = 2
        /\ ~firstFailed => reinits = 0 /\ attempts = 1
        /\ ~escaped

\* C25: a speak request makes no more than two engine attempts.  The
\* HindiTTSPlayer answers a failure of the first attempt by reinitializing the
\* engine once; when that succeeds it tries the utterance exactly once more
\* and drops it silently if that fails too, and when the reinitialization
\* itself raises the request raises to its caller after the one attempt.  The
\* HindiTTSPlayerMac makes one attempt, drops the utterance when it fails,
\* never reinitializes and never raises.
C25_RetryOnceByPlayer ==
    ttsOp = "play_for" =>
        /\ attempts \in 1..2
        /\ player = "HindiTTSPlayerMac" =>
               attempts = 1 /\ reinits = 0 /\ ~escaped
        /\ player = "HindiTTSPlayer" =>
               /\ reinits = (IF firstFailed THEN 1 ELSE 0)
               /\ escaped => firstFailed
               /\ attempts = (IF firstFailed /\ ~escaped THEN 2 ELSE 1)

\* the first attempt failed, the engine was reinitialized and a second made
C25_Witness ==
    /\ ttsOp = "play_for"
    /\ player = "HindiTTSPlayer"
    /\ firstFailed
    /\ reinits = 1
    /\ attempts = 2
    /\ ~escaped

\* C26: the engine a reinitialization leaves has the rate and the voice the
\* engine had before the failure.
C26_ReinitKeepsRateAndVoice ==
    [][(ttsOp' = "play_for" /\ reinits' = 1 /\ ~escaped') =>
          engineRate' = engineRate /\ engineVoice' = engineVoice]_vars

\* C27: the text spoken is the symbol when a voice has been selected or the
\* symbol has no Devanagari code point, and the transliteration otherwise, in
\* both players; the retry of a failed attempt speaks the same text.
C27_SymbolUnlessNoVoice ==
    [][ttsOp' = "play_for" =>
          said' = IF voiceId # NoVoice \/ ~HasDevanagari(symbol')
                  THEN "symbol" ELSE "pronunciation"]_vars

\* the transliteration, chosen for a Devanagari symbol with no voice selected
C27_Witness ==
    /\ ttsOp = "play_for"
    /\ player = "HindiTTSPlayerMac"
    /\ voiceId = NoVoice
    /\ symbol = <<DevanagariFirst + 21>>
    /\ said = "pronunciation"

\* -------------------------------------------------- claims on the schedule
\* C24: a play_for call that raises does not end the schedule of its
\* campaign: after the step a poll, the next repeat or the return to idle of
\* that campaign is pending, the controls are busy, and nothing is raised.
C24_FailedSpeakKeepsSchedule ==
    failed =>
        /\ spokeTok = playToken
        /\ Pending({"poll", "play", "idle"}, spokeTok) # {}
        /\ controls.busy

\* the first of two repeats raised, and the second is scheduled
C24_Witness ==
    /\ failed
    /\ cmds > 0
    /\ ~contActive
    /\ spoken = 1
    /\ ~speaking
    /\ \E j \in Pending({"play"}, spokeTok) : timers[j].left = 1

\* the step makes the first play_for call of a campaign
FirstSpeak == spokeTok' # NoToken /\ spoken' = 1

\* C28: every campaign has a token of its own: the first play_for call of a
\* campaign, the one of a continuous cycle included, runs under a token
\* other than that of the campaign before.
C28_EachCampaignOwnToken ==
    [][(FirstSpeak /\ campaign.tok # NoToken) => spokeTok' # campaign.tok]_vars

\* C29: the wait for the speaker ends: whatever is_speaking() reports, there
\* is always a later moment with no poll of the current campaign pending.
C29_PollEnds == []<>(Pending({"poll"}, playToken) = {})

\* C30: within one campaign every play_for call speaks the entry its first
\* call spoke.
C30_RepeatsSpeakSameEntry ==
    spokeTok # NoToken => spokeIdx = campaign.idx

C32_BusyWhileCampaignLive ==
    Pending({"poll", "play"}, playToken) # {} => controls.busy

\* C33: a continuation of a campaign never changes the filter mode, and it
\* moves the cursor only when it is the advance of the continuous cycle,
\* carries the current token and runs while the cycle is active.
C33_ContinuationsLeaveNavigationAlone ==
    [][Fire => /\ filterMode' = filterMode
               /\ index' # index => /\ contActive
                                    /\ Head(timers).kind = "advance"
                                    /\ Head(timers).tok = playToken]_vars

\* an advance of the continuous cycle has moved the cursor, by no command,
\* and the entry it moved to is being spoken
C33_Witness ==
    /\ contActive
    /\ cmds = 0
    /\ index = FirstConsonant + 1
    /\ spokeIdx = index
    /\ spokeTok = playToken
    /\ speaking

\* C35: while the continuous cycle is active, play does what stopping the
\* cycle does: the cycle ends, the token goes up by one, no play_for call is
\* made, no continuation is scheduled and no campaign begins; while it is
\* not active, play starts a campaign for the entry under the cursor.
C35_PlayStopsContinuous ==
    [][OnPlay =>
         IF contActive
         THEN /\ ~contActive'
              /\ playToken' = playToken + 1
              /\ spokeTok' = NoToken
              /\ campaign' = NoCampaign
              /\ timers' = timers
              /\ speaking' = speaking
              /\ index' = index /\ filterMode' = filterMode
         ELSE /\ ~contActive'
              /\ playToken' = playToken + 1
              /\ spokeTok' = playToken'
              /\ spokeIdx' = index
              /\ campaign' = [tok |-> playToken', idx |-> index]]_vars

\* play has stopped the continuous cycle: the auto-play box is still
\* checked, and what the cycle had scheduled is still pending
C35_Witness ==
    /\ quiet
    /\ cbAutoplay
    /\ ~contActive
    /\ spokeTok = NoToken
    /\ campaign = NoCampaign
    /\ \E j \in 1..Len(timers) : timers[j].tok = playToken - 1

\* C36: a change of rate adds one to the token, makes the controls busy,
\* makes no play_for call itself and leaves exactly one continuation of the
\* new token pending: the start, after the initial delay, of a campaign
\* with the full number of repeats. No step makes a play_for call under
\* another token than the current one, nor more calls in a campaign than
\* the number of repeats.
C36_RateChangeSupersedesAndReplays ==
    [][/\ OnRateChanged =>
            LET live == {j \in 1..Len(timers') : timers'[j].tok = playToken'}
            IN  /\ playToken' = playToken + 1
                /\ controls'.busy
                /\ spokeTok' = NoToken
                /\ index' = index
                /\ Cardinality(live) = 1
                /\ \A j \in live :
                     timers'[j] = Timer("play", playToken',
                                        Repeats(ttsRepeats), ttsDelay)
       /\ spokeTok' # NoToken => /\ spokeTok' = playToken'
                                 /\ spoken' <= Repeats(ttsRepeats)]_vars

\* the rate was changed while an utterance was polled for: the poll of the
\* superseded campaign and the start of the new one are both pending
C36_Witness ==
    /\ ~autoPlaySound
    /\ ~contActive
    /\ ttsRepeats = MaxRepeats
    /\ controls.busy
    /\ spokeTok = NoToken
    /\ \E j \in Pending({"play"}, playToken) : timers[j].left = MaxRepeats
    /\ Pending({"poll"}, playToken - 1) # {}

\* C37: while the continuous cycle is active, the navigation controls are
\* disabled and play is enabled. (The trailing-delay callback and _refresh
\* enable the navigation controls again.)
C37_NavigationDisabledWhileContinuous ==
    contActive => /\ controls.play
                  /\ ~controls.next
                  /\ ~controls.prev

\* the requests of the latest play_for call that are followed by a start
Followed == {k \in 1..Len(calls) : k < Len(calls) /\ calls[k + 1].op = "start"}

Stops == {k \in 1..Len(calls) : calls[k].op = "stop"}

\* every start of an utterance comes right after a request to stop
StopBeforeStart ==
    /\ calls # << >>
    /\ calls[1].op = "stop"
    /\ \A k \in 1..Len(calls) :
         calls[k].op = "start" => k > 1 /\ calls[k - 1].op = "stop"

Ended == step = "done" /\ broke \in {"none", "write", "launch"}

\* C38: when main of entryTester has ended, normally or because writing the
\* test entry or launching the app failed, data/letters.yaml holds what it
\* held before the run and no backup file is left, whatever backup file was
\* there before the run.
C38_TesterRestoresDataFile ==
    Ended => appYaml = prior /\ backupYaml = Absent

\* the write of the test entry raised; a backup file with other entries lay
\* there before the run; main has ended and the data file is as before
C38_Witness ==
    /\ step = "done"
    /\ broke = "write"
    /\ staleBackup.there
    /\ staleBackup # prior
    /\ appYaml = prior
====
